---- MODULE Spec2Model ----
(***************************************************************************)
(* Model of the correlation and lag analysis engine of                     *)
(* src/utils/analysis.py (class CorrelationAnalyzer).                      *)
(*                                                                         *)
(* Timestamps are month numbers (the frames are indexed by month-end       *)
(* dates, one row per month).  A frame is a record                         *)
(*   [index : set of months, columns : sequence of names,                  *)
(*    data : [name -> [month -> cell]]]                                    *)
(* and a series is a function from its index (a set of months) to cells.   *)
(* A cell is a number or NaN.  A Pearson coefficient r is kept exactly, as *)
(* its sign and the reduced fraction p/q = r^2; the undefined coefficient  *)
(* (numpy's nan, a zero-variance input) is the value with q = 0.           *)
(***************************************************************************)
EXTENDS Integers, Sequences, FiniteSets, TLC

\* ----------------------------------------------------------------- bounds
\* Months of the sparse input family are 1..MaxMonth.
MaxMonth == 4
\* Series of the dense input family have 1..MaxLen points.
MaxLen == 6

\* ------------------------------------------------------- program constants
\* The missing value of a cell (numpy.nan); every real value is >= 0 here.
NaN == -1
\* self.lag_range = range(-6, 7)
LagLow == -6
LagHigh == 6
\* Minimum number of points for a correlation.
MinPoints == 3
\* get_top_correlations(..., top_n=5), get_top_lagged_correlations(..., top_n=3)
TopN == 5
TopLagN == 3

lag_range_init == [i \in 1..(LagHigh - LagLow + 1) |-> LagLow + i - 1]

\* ------------------------------------------------------------ sequences
RECURSIVE SumSeq(_)
SumSeq(s) == IF s = <<>> THEN 0 ELSE Head(s) + SumSeq(Tail(s))

Min(S) == CHOOSE x \in S : \A y \in S : x <= y
Max(S) == CHOOSE x \in S : \A y \in S : y <= x

RECURSIVE GCD(_, _)
GCD(a, b) == IF b = 0 THEN a ELSE GCD(b, a % b)

Range(s) == {s[i] : i \in DOMAIN s}

\* A sorted (monotonic increasing) index as the sequence of its labels.
RECURSIVE SortedIndex(_)
SortedIndex(S) ==
    IF S = {} THEN <<>> ELSE <<Min(S)>> \o SortedIndex(S \ {Min(S)})

\* The 1-based position of label m in the sorted index S.
Pos(S, m) == Cardinality({x \in S : x <= m})

\* ---------------------------------------------------------------- pandas
\* The series with its missing values left in.
dropna_none(s) == [m \in DOMAIN s |-> s[m]]

\* Series.dropna()
dropna(s) == [m \in {x \in DOMAIN s : s[x] # NaN} |-> s[m]]

\* A shift by the calendar: the value at month m becomes the value of the
\* month m - k, missing if the series has no such month.
shift_calendar(s, k) ==
    [m \in DOMAIN s |-> IF m - k \in DOMAIN s THEN s[m - k] ELSE NaN]

\* Series.shift(k), k >= 0: positional, the index is kept, the value at
\* position p becomes the value at position p - k, the first k become NaN.
shift(s, k) ==
    LET idx == SortedIndex(DOMAIN s)
    IN  [m \in DOMAIN s |->
            IF Pos(DOMAIN s, m) > k THEN s[idx[Pos(DOMAIN s, m) - k]] ELSE NaN]

\* Index.intersection
intersection(a, b) == a \cap b

\* Series.loc[dates]: the values at the labels, in the order of the labels.
loc(s, dates) == [i \in 1..Len(dates) |-> s[dates[i]]]

\* DataFrame[column]
Column(df, c) == [m \in df.index |-> df.data[c][m]]

\* The frame with all its rows, whatever the range.
loc_slice_all(df, start, end) ==
    [index |-> df.index, columns |-> df.columns,
     data |-> [c \in Range(df.columns) |-> [m \in df.index |-> df.data[c][m]]]]

\* DataFrame.loc[start:end]: the rows with start <= label <= end.
loc_slice(df, start, end) ==
    LET keep == {m \in df.index : start <= m /\ m <= end}
    IN  [index |-> keep, columns |-> df.columns,
         data |-> [c \in Range(df.columns) |-> [m \in keep |-> df.data[c][m]]]]

\* ---------------------------------------------------------------- pearsonr
NaNCorr == [sgn |-> 0, p |-> 0, q |-> 0]
isnan(r) == r.q = 0
Sign(n) == IF n > 0 THEN 1 ELSE IF n < 0 THEN -1 ELSE 0

\* The coefficient with 0 in place of nan for a constant input.
pearsonr_zero(x, y) ==
    LET n   == Len(x)
        Sx  == SumSeq(x)
        Sy  == SumSeq(y)
        Sxy == SumSeq([i \in 1..n |-> x[i] * y[i]])
        Sxx == SumSeq([i \in 1..n |-> x[i] * x[i]])
        Syy == SumSeq([i \in 1..n |-> y[i] * y[i]])
        num == n * Sxy - Sx * Sy
        dx  == n * Sxx - Sx * Sx
        dy  == n * Syy - Sy * Sy
        g   == GCD(num * num, dx * dy)
    IN  IF dx = 0 \/ dy = 0 THEN [sgn |-> 0, p |-> 0, q |-> 1]
        ELSE [sgn |-> Sign(num), p |-> (num * num) \div g, q |-> (dx * dy) \div g]

\* scipy.stats.pearsonr(x, y): r = cov(x, y) / (std(x) * std(y)); nan for a
\* constant input.  With n = Len(x):
\*   r = (n Sxy - Sx Sy) / sqrt((n Sxx - Sx^2) (n Syy - Sy^2)).
\* The p-value is a function of r and n and is not represented.
pearsonr(x, y) ==
    LET n   == Len(x)
        Sx  == SumSeq(x)
        Sy  == SumSeq(y)
        Sxy == SumSeq([i \in 1..n |-> x[i] * y[i]])
        Sxx == SumSeq([i \in 1..n |-> x[i] * x[i]])
        Syy == SumSeq([i \in 1..n |-> y[i] * y[i]])
        num == n * Sxy - Sx * Sy
        dx  == n * Sxx - Sx * Sx
        dy  == n * Syy - Sy * Sy
        g   == GCD(num * num, dx * dy)
    IN  IF dx = 0 \/ dy = 0 THEN NaNCorr
        ELSE [sgn |-> Sign(num), p |-> (num * num) \div g, q |-> (dx * dy) \div g]

\* abs(a) < abs(b) for two defined coefficients.
AbsLess(a, b) == a.p * b.q < b.p * a.q
IsOne(r) == r.sgn = 1 /\ r.p = r.q /\ r.q # 0

\* ------------------------------------------------- calculate_correlations
\* A guard that lets two points through.
enough_two(n) == n >= 2

\* if len(common_dates) >= 3 / if valid_mask.sum() >= 3
enough(n) == n >= MinPoints

\* The body of the loop of calculate_correlations for one indicator: the
\* entry it adds to the dict (a sequence of one entry), or nothing.
correlation_entry(fred_data, export_data, indicator) ==
    IF indicator \notin Range(fred_data.columns) THEN <<>>
    ELSE
      LET indicator_series == dropna(Column(fred_data, indicator))
          export_series    == dropna(Column(export_data, "Export_Sales"))
          common_dates     == SortedIndex(intersection(DOMAIN indicator_series,
                                                       DOMAIN export_series))
          correlation      == pearsonr(loc(indicator_series, common_dates),
                                       loc(export_series, common_dates))
      IN  IF enough(Len(common_dates)) /\ ~isnan(correlation)
          THEN <<[indicator |-> indicator, correlation |-> correlation,
                  n_observations |-> Len(common_dates)]>>
          ELSE <<>>

\* The dict returned, as the sequence of its entries in insertion order (the
\* order of selected_indicators, which holds no name twice).
RECURSIVE calculate_correlations(_, _, _)
calculate_correlations(fred_data, export_data, selected) ==
    IF selected = <<>> THEN <<>>
    ELSE correlation_entry(fred_data, export_data, Head(selected))
         \o calculate_correlations(fred_data, export_data, Tail(selected))

\* --------------------------------------------- calculate_lag_correlations
\* x[valid_mask]: the elements of x at the positions in keep, in order.
RECURSIVE mask(_, _, _)
mask(x, keep, i) ==
    IF i > Len(x) THEN <<>>
    ELSE (IF i \in keep THEN <<x[i]>> ELSE <<>>) \o mask(x, keep, i + 1)

\* The sweep with the two branches exchanged: a positive lag shifts the
\* indicator, a negative lag the target.
lag_pairs_swapped(indicator_series, export_series, lag) ==
    LET ind == IF lag > 0 THEN shift(indicator_series, lag) ELSE indicator_series
        exp == IF lag < 0 THEN shift(export_series, -lag) ELSE export_series
        common_dates == SortedIndex(intersection(DOMAIN ind, DOMAIN exp))
        ind_values == loc(ind, common_dates)
        exp_values == loc(exp, common_dates)
        valid_mask == {i \in 1..Len(common_dates) :
                          ind_values[i] # NaN /\ exp_values[i] # NaN}
    IN  [dates |-> mask(common_dates, valid_mask, 1),
         ind_values |-> mask(ind_values, valid_mask, 1),
         exp_values |-> mask(exp_values, valid_mask, 1),
         ok |-> enough(Len(common_dates)) /\ enough(Cardinality(valid_mask))]

\* The sweep that shifts the target at every lag, whatever its sign.
lag_pairs_target_only(indicator_series, export_series, lag) ==
    LET ind == indicator_series
        exp == IF lag > 0 THEN shift(export_series, lag)
               ELSE IF lag < 0 THEN shift(export_series, -lag) ELSE export_series
        common_dates == SortedIndex(intersection(DOMAIN ind, DOMAIN exp))
        ind_values == loc(ind, common_dates)
        exp_values == loc(exp, common_dates)
        valid_mask == {i \in 1..Len(common_dates) :
                          ind_values[i] # NaN /\ exp_values[i] # NaN}
    IN  [dates |-> mask(common_dates, valid_mask, 1),
         ind_values |-> mask(ind_values, valid_mask, 1),
         exp_values |-> mask(exp_values, valid_mask, 1),
         ok |-> enough(Len(common_dates)) /\ enough(Cardinality(valid_mask))]

\* The sweep that aligns first and shifts afterwards: both series are cut to
\* their common dates, and the shift moves what is left.
lag_pairs_aligned_first(indicator_series, export_series, lag) ==
    LET both == intersection(DOMAIN indicator_series, DOMAIN export_series)
        i0  == [m \in both |-> indicator_series[m]]
        e0  == [m \in both |-> export_series[m]]
        ind == IF lag < 0 THEN shift(i0, -lag) ELSE i0
        exp == IF lag > 0 THEN shift(e0, lag) ELSE e0
        common_dates == SortedIndex(both)
        ind_values == loc(ind, common_dates)
        exp_values == loc(exp, common_dates)
        valid_mask == {i \in 1..Len(common_dates) :
                          ind_values[i] # NaN /\ exp_values[i] # NaN}
    IN  [dates |-> mask(common_dates, valid_mask, 1),
         ind_values |-> mask(ind_values, valid_mask, 1),
         exp_values |-> mask(exp_values, valid_mask, 1),
         ok |-> enough(Len(common_dates)) /\ enough(Cardinality(valid_mask))]

\* The two value sequences correlated at one lag, and whether both guards
\* (common dates, valid pairs) let the correlation be computed.
lag_pairs(indicator_series, export_series, lag) ==
    LET ind == IF lag < 0 THEN shift(indicator_series, -lag) ELSE indicator_series
        exp == IF lag > 0 THEN shift(export_series, lag) ELSE export_series
        common_dates == SortedIndex(intersection(DOMAIN ind, DOMAIN exp))
        ind_values == loc(ind, common_dates)
        exp_values == loc(exp, common_dates)
        valid_mask == {i \in 1..Len(common_dates) :
                          ind_values[i] # NaN /\ exp_values[i] # NaN}
    IN  [dates |-> mask(common_dates, valid_mask, 1),
         ind_values |-> mask(ind_values, valid_mask, 1),
         exp_values |-> mask(exp_values, valid_mask, 1),
         ok |-> enough(Len(common_dates)) /\ enough(Cardinality(valid_mask))]

\* The sweep without the simultaneous correlation: lag 0 is never stored.
lag_correlation_no_zero(indicator_series, export_series, lag) ==
    LET pairs == lag_pairs(indicator_series, export_series, lag)
    IN  IF pairs.ok /\ lag # 0
        THEN pearsonr(pairs.ind_values, pairs.exp_values) ELSE NaNCorr

\* The coefficient stored for one lag, nan when the lag is left out.
lag_correlation(indicator_series, export_series, lag) ==
    LET pairs == lag_pairs(indicator_series, export_series, lag)
    IN  IF pairs.ok THEN pearsonr(pairs.ind_values, pairs.exp_values) ELSE NaNCorr

\* The loop body that stores every lag of the range, whatever its coefficient.
lag_entry_all_lags(fred_data, export_data, indicator, lag_range) ==
    IF indicator \notin Range(fred_data.columns) THEN <<>>
    ELSE
      LET indicator_series == dropna(Column(fred_data, indicator))
          export_series    == dropna(Column(export_data, "Export_Sales"))
          sweep == [lag \in Range(lag_range) |->
                      lag_correlation(indicator_series, export_series, lag)]
      IN  <<[indicator |-> indicator, lags |-> sweep]>>

\* The body of the loop for one indicator: its entry of lag_results, if any.
lag_entry(fred_data, export_data, indicator, lag_range) ==
    IF indicator \notin Range(fred_data.columns) THEN <<>>
    ELSE
      LET indicator_series == dropna(Column(fred_data, indicator))
          export_series    == dropna(Column(export_data, "Export_Sales"))
          sweep == [lag \in Range(lag_range) |->
                      lag_correlation(indicator_series, export_series, lag)]
          defined == {lag \in Range(lag_range) : ~isnan(sweep[lag])}
          lag_correlations == [lag \in defined |-> sweep[lag]]
      IN  IF defined # {} THEN <<[indicator |-> indicator, lags |-> lag_correlations]>>
          ELSE <<>>

RECURSIVE calculate_lag_correlations(_, _, _, _)
calculate_lag_correlations(fred_data, export_data, selected, lag_range) ==
    IF selected = <<>> THEN <<>>
    ELSE lag_entry(fred_data, export_data, Head(selected), lag_range)
         \o calculate_lag_correlations(fred_data, export_data, Tail(selected), lag_range)

\* ------------------------------------------------------------------ ranking
\* DataFrame.sort_values('Abs_Correlation', ascending=False) sorts with the
\* default kind='quicksort', which is not a stable sort: the rows come out by
\* non-increasing absolute value, and the order of rows of equal absolute
\* value is whatever numpy's quicksort of the build gives.  Two outcomes are
\* kept: equal rows in the order supplied, and equal rows in the reverse of
\* it.
TieOrders == {"supplied", "reversed"}

RECURSIVE insert_desc(_, _, _)
insert_desc(sorted, row, ties) ==
    IF sorted = <<>> THEN <<row>>
    ELSE IF \/ AbsLess(Head(sorted).correlation, row.correlation)
            \/ /\ ties = "reversed"
               /\ ~AbsLess(row.correlation, Head(sorted).correlation)
         THEN <<row>> \o sorted
         ELSE <<Head(sorted)>> \o insert_desc(Tail(sorted), row, ties)

RECURSIVE sort_values(_, _)
sort_values(rows, ties) ==
    IF rows = <<>> THEN <<>>
    ELSE insert_desc(sort_values(SubSeq(rows, 1, Len(rows) - 1), ties),
                     rows[Len(rows)], ties)

head(rows, n) == SubSeq(rows, 1, IF Len(rows) < n THEN Len(rows) ELSE n)

get_top_correlations(correlations, top_n, ties) ==
    head(sort_values(correlations, ties), top_n)

\* One row for each indicator, the one of its lowest lag.
RECURSIVE lagged_list_one_each(_)
lagged_list_one_each(lag_results) ==
    IF lag_results = <<>> THEN <<>>
    ELSE LET e == Head(lag_results)
             lag == Min(DOMAIN e.lags)
         IN  <<[indicator |-> e.indicator, lag |-> lag, correlation |-> e.lags[lag]]>>
             \o lagged_list_one_each(Tail(lag_results))

\* The rows of lagged_list: indicators in dict order, lags ascending.
RECURSIVE lagged_list(_)
lagged_list(lag_results) ==
    IF lag_results = <<>> THEN <<>>
    ELSE LET e == Head(lag_results)
             lags == SortedIndex(DOMAIN e.lags)
         IN  [i \in 1..Len(lags) |->
                 [indicator |-> e.indicator, lag |-> lags[i],
                  correlation |-> e.lags[lags[i]]]]
             \o lagged_list(Tail(lag_results))

get_top_lagged_correlations(lag_results, top_n, ties) ==
    head(sort_values(lagged_list(lag_results), ties), top_n)

\* ----------------------------------------------------------------- display
\* pd.DataFrame(correlation_list) labels the rows 0, 1, ... in the order of
\* the list; sort_values, head and the selection of columns keep the label
\* of every row.
index_label(correlation_list, row) ==
    (CHOOSE i \in DOMAIN correlation_list : correlation_list[i] = row) - 1

\* The metrics of the top-3 display, one for each (idx, row) of
\* results['top_correlations'].head(3).iterrows(): idx is the label of the
\* row, and the delta reads 'rank #{idx + 1}'.
top3_metrics(correlation_list, top) ==
    [k \in 1..Len(head(top, 3)) |->
        [label |-> top[k].indicator,
         value |-> top[k].correlation,
         delta |-> index_label(correlation_list, top[k]) + 1]]

\* ------------------------------------------------------------------ frames
\* [ind for ind in selected_indicators if ind in fred_data.columns]
RECURSIVE available_indicators(_, _)
available_indicators(fred_data, selected) ==
    IF selected = <<>> THEN <<>>
    ELSE (IF Head(selected) \in Range(fred_data.columns) THEN <<Head(selected)>>
          ELSE <<>>) \o available_indicators(fred_data, Tail(selected))

\* pd.concat([fred_data[cols], export_data[['Export_Sales']]], axis=1): the
\* outer join on the index; a cell without a row in its frame is NaN.
concat(fred_data, cols, export_data) ==
    LET idx == fred_data.index \cup export_data.index
    IN  [index   |-> idx,
         columns |-> cols \o <<"Export_Sales">>,
         data    |-> [c \in Range(cols) \cup {"Export_Sales"} |->
                        [m \in idx |->
                           IF c = "Export_Sales"
                           THEN (IF m \in export_data.index
                                 THEN export_data.data[c][m] ELSE NaN)
                           ELSE (IF m \in fred_data.index
                                 THEN fred_data.data[c][m] ELSE NaN)]]]

\* DataFrame.corr(): Pearson over the rows where both columns are defined
\* (pairwise complete observations), nan when that leaves no variance.
corr(df) ==
    [cell \in Range(df.columns) \X Range(df.columns) |->
        LET rows == SortedIndex({m \in df.index : df.data[cell[1]][m] # NaN
                                               /\ df.data[cell[2]][m] # NaN})
        IN  pearsonr(loc(df.data[cell[1]], rows), loc(df.data[cell[2]], rows))]

create_correlation_matrix(fred_data, export_data, selected) ==
    corr(concat(fred_data, available_indicators(fred_data, selected), export_data))

\* DataFrame.dropna(): the rows with no NaN in any column.
dropna_rows(df) ==
    LET keep == {m \in df.index : \A c \in Range(df.columns) : df.data[c][m] # NaN}
    IN  [index |-> keep, columns |-> df.columns,
         data |-> [c \in Range(df.columns) |-> [m \in keep |-> df.data[c][m]]]]

\* fred_filtered[selected_indicators] raises KeyError for the names that are
\* no column of the frame.
missing_columns(fred_data, selected) ==
    SelectSeq(selected, LAMBDA c : c \notin Range(fred_data.columns))

EmptyFrame == [index |-> {}, columns |-> <<>>, data |-> <<>>]

\* ------------------------------------------------------------- exceptions
\* KeyError: str(e) as the sequence of its words.
KeyError(words) == [type |-> "KeyError", words |-> words]

\* raise Exception(f"Analysis failed: {str(e)}"): the text of the message and
\* the timestamps formatted into it (none).
AnalysisFailed(e) == [text |-> <<"Analysis failed: ">> \o e.words, dates |-> <<>>]

NoResult == [status |-> "none", message |-> [text |-> <<>>, dates |-> <<>>]]
Returned == [status |-> "returned", message |-> [text |-> <<>>, dates |-> <<>>]]
Raised(e) == [status |-> "raised", message |-> AnalysisFailed(e)]

\* ------------------------------------------------------------------ inputs
\* The values of the generated series.
Vals == {1, 2}

\* The generated target series on the months S: those whose first value is
\* the lower one.  A target that starts with the higher value gives, with an
\* indicator, the coefficients that the two series with their values
\* exchanged give, and that target starts with the lower one.
TargetsOn(S) == {e \in [S -> Vals] : e[Min(S)] = 1}

\* pd.DataFrame(data_dict): the union of the indexes, NaN where a series has
\* no value.
Frame(cols, series) ==
    LET idx == UNION {DOMAIN series[c] : c \in Range(cols)}
    IN  [index |-> idx, columns |-> cols,
         data |-> [c \in Range(cols) |->
                     [m \in idx |-> IF m \in DOMAIN series[c] THEN series[c][m]
                                    ELSE NaN]]]

Args(fred, export, selected, lookback) ==
    [fred_data |-> fred, export_data |-> export,
     selected_indicators |-> selected, lookback_window |-> lookback]

\* run_full_analysis as a function of its arguments: how the call ends.
run_full_analysis(a) ==
    LET end   == Min({Max(a.fred_data.index), Max(a.export_data.index)})
        start == end - a.lookback_window
        ff    == loc_slice(a.fred_data, start, end)
        ef    == loc_slice(a.export_data, start, end)
    IN  IF calculate_correlations(ff, ef, a.selected_indicators) = <<>>
        THEN Raised(KeyError(<<"'Correlation'">>))
        ELSE IF calculate_lag_correlations(ff, ef, a.selected_indicators,
                                           lag_range_init) = <<>>
        THEN Raised(KeyError(<<"'Abs_Correlation'">>))
        ELSE IF missing_columns(ff, a.selected_indicators) # <<>>
        THEN Raised(KeyError(missing_columns(ff, a.selected_indicators)
                             \o <<"not in index">>))
        ELSE Returned

\* What a call with arguments a gives on a newly constructed analyzer, the
\* sort of the build leaving equal keys as ties says: the bundle it returns
\* (analysis.py:198-207), or the message of the exception it raises.
analysis_bundle(a, ties) ==
    LET end   == Min({Max(a.fred_data.index), Max(a.export_data.index)})
        start == end - a.lookback_window
        ff    == loc_slice(a.fred_data, start, end)
        ef    == loc_slice(a.export_data, start, end)
        sel   == a.selected_indicators
        correlations == calculate_correlations(ff, ef, sel)
        lag_correlations == calculate_lag_correlations(ff, ef, sel, lag_range_init)
        outcome == run_full_analysis(a)
    IN  IF outcome.status = "raised"
        THEN [status |-> "raised", message |-> outcome.message]
        ELSE [status |-> "returned",
              correlations |-> correlations,
              lag_analysis |-> lag_correlations,
              top_correlations |-> get_top_correlations(correlations, TopN, ties),
              top_lagged_correlations |->
                  get_top_lagged_correlations(lag_correlations, TopLagN, ties),
              correlation_matrix |-> create_correlation_matrix(ff, ef, sel),
              analysis_data |-> dropna_rows(concat(ff, sel, ef)),
              lookback_window |-> a.lookback_window,
              analysis_period |-> <<start, end>>]

OneColumn(name, series) == Frame(<<name>>, [c \in {name} |-> series])
Target(series) == OneColumn("Export_Sales", series)

\* One indicator on any non-empty subset of the months and the target on any
\* run of consecutive months.
Intervals == {i..j : i \in 1..MaxMonth, j \in 1..MaxMonth} \ {{}}
SparseArgs(a, e) == Args(OneColumn("A", a), Target(e), <<"A">>, MaxMonth - 1)

\* Two indicators: every series is constant, alternating or rising, on all
\* the months, on all but the first, or on the last two; the selection may
\* name a series that is no column ("X"); short and long look-back.
PoolDomains == {1..MaxMonth, 2..MaxMonth, (MaxMonth - 1)..MaxMonth}
PoolSeries ==
    UNION {{[m \in S |-> 1], [m \in S |-> 1 + (m % 2)], [m \in S |-> m]} :
              S \in PoolDomains}
Selections == {<<"A">>, <<"A", "B">>, <<"B", "A">>, <<"A", "X">>, <<"X">>}
PoolArgs(a, b, e, sel, lb) ==
    Args(Frame(<<"A", "B">>, [c \in {"A", "B"} |-> IF c = "A" THEN a ELSE b]),
         Target(e), sel, lb)

\* Two indicators selected, one sharing 6 months with the target and one
\* sharing 2 months.
OverlapScenario ==
    Args(Frame(<<"A", "B">>, [c \in {"A", "B"} |->
                 IF c = "A" THEN [m \in 1..6 |-> 1 + (m % 2)]
                 ELSE [m \in 5..7 |-> m]]),
         Target([m \in 1..6 |-> m]), <<"A", "B">>, 5)

\* Two indicators selected: A on all the months but the last, B on any months,
\* possibly on none that A has; the target rises on all the months.
JointArgs(a, Sb) ==
    Args(Frame(<<"A", "B">>, [c \in {"A", "B"} |->
                 IF c = "A" THEN a ELSE [m \in Sb |-> 1 + (m % 2)]]),
         Target([m \in 1..MaxMonth |-> m]), <<"A", "B">>, MaxMonth - 1)

\* Same timestamps: indicator and target on the months 1..n.
DenseArgs(a, e) == Args(OneColumn("A", a), Target(e), <<"A">>, MaxLen)

\* Same timestamps with a calendar gap: indicator and target on all the
\* months but one, the target rising.
GapArgs(g, a) ==
    Args(OneColumn("A", a), Target([m \in (1..MaxLen) \ {g} |-> m]), <<"A">>, MaxLen)

\* The indicator on the months 1..n, the target one month later, on 2..n+1,
\* rising, alternating or a step; a second column gives the indicator frame a
\* row in the month n+1.
OffsetTargets(n) ==
    {[m \in 1..n |-> m], [m \in 1..n |-> 1 + (m % 2)],
     [m \in 1..n |-> IF 2 * m > n THEN 2 ELSE 1]}
OffsetArgs(n, a, e) ==
    Args(Frame(<<"A", "B">>, [c \in {"A", "B"} |->
                 IF c = "A" THEN a ELSE [m \in {n + 1} |-> 1]]),
         Target([m \in 2..(n + 1) |-> e[m - 1]]), <<"A">>, MaxLen)

\* Target 100..150 on January..June (months 2..7), the indicator the same
\* values one month earlier (months 1..6).
LagScenario ==
    Args(Frame(<<"A", "B">>, [c \in {"A", "B"} |->
                 IF c = "A" THEN [m \in 1..6 |-> 90 + 10 * m]
                 ELSE [m \in {7} |-> 1]]),
         Target([m \in 2..7 |-> 80 + 10 * m]), <<"A">>, 6)

\* Six indicators on all the months against a rising target: A..E alternate,
\* step up or step down, F may be constant as well; all six are selected, or
\* F alone.  More results than top_correlations keeps, several of equal
\* absolute correlation, and selections with one result or none.
RankColumns == <<"A", "B", "C", "D", "E", "F">>
RankShapes == {"alternating", "step_up", "step_down"}
RankSeries(shape) ==
    [m \in 1..MaxMonth |->
        CASE shape = "constant"    -> 1
          [] shape = "alternating" -> 1 + (m % 2)
          [] shape = "step_up"     -> IF 2 * m > MaxMonth THEN 2 ELSE 1
          [] shape = "step_down"   -> IF 2 * m > MaxMonth THEN 1 ELSE 2]
RankArgs(shapes, last, sel) ==
    Args(Frame(RankColumns,
               [c \in Range(RankColumns) |->
                  RankSeries(IF c = "F" THEN last ELSE shapes[c])]),
         Target([m \in 1..MaxMonth |-> m]), sel, MaxMonth - 1)

\* ------------------------------------------------------------------- state
VARIABLES
    pc,                       \* the statement run_full_analysis is at
    lag_range,                \* self.lag_range
    quicksort_ties,           \* the order numpy's quicksort leaves equal keys in
    fred_data, export_data, selected_indicators, lookback_window,  \* arguments
    start_date, end_date, fred_filtered, export_filtered,
    correlations, lag_correlations, top_correlations,
    top_lagged_correlations, correlation_matrix, analysis_data,
    result                    \* how the call ended

args == <<fred_data, export_data, selected_indicators, lookback_window>>
window == <<start_date, end_date, fred_filtered, export_filtered>>
computed == <<correlations, lag_correlations>>
ranked == <<top_correlations, top_lagged_correlations>>
assembled == <<correlation_matrix, analysis_data>>
vars == <<pc, lag_range, quicksort_ties, args, window, computed, ranked, assembled, result>>

\* CorrelationAnalyzer(): no call is running.
Init ==
    /\ pc = "idle"
    /\ lag_range = lag_range_init
    /\ quicksort_ties \in TieOrders
    /\ fred_data = EmptyFrame /\ export_data = EmptyFrame
    /\ selected_indicators = <<>> /\ lookback_window = 0
    /\ start_date = 0 /\ end_date = 0
    /\ fred_filtered = EmptyFrame /\ export_filtered = EmptyFrame
    /\ correlations = <<>> /\ lag_correlations = <<>>
    /\ top_correlations = <<>> /\ top_lagged_correlations = <<>>
    /\ correlation_matrix = <<>> /\ analysis_data = EmptyFrame
    /\ result = NoResult

\* run_full_analysis(fred_data, export_data, selected_indicators, lookback_window)
\* is called with arguments a.
Call(a) ==
    /\ pc = "idle"
    /\ fred_data' = a.fred_data /\ export_data' = a.export_data
    /\ selected_indicators' = a.selected_indicators
    /\ lookback_window' = a.lookback_window
    /\ pc' = "window"
    /\ UNCHANGED <<lag_range, quicksort_ties, window, computed, ranked, assembled, result>>

\* A window step that truncates the caller's frames themselves.
Window_in_place ==
    /\ pc = "window"
    /\ end_date' = Min({Max(fred_data.index), Max(export_data.index)})
    /\ start_date' = end_date' - lookback_window
    /\ fred_filtered' = loc_slice(fred_data, start_date', end_date')
    /\ export_filtered' = loc_slice(export_data, start_date', end_date')
    /\ fred_data' = fred_filtered' /\ export_data' = export_filtered'
    /\ pc' = "correlations"
    /\ UNCHANGED <<lag_range, quicksort_ties, selected_indicators, lookback_window,
                   computed, ranked, assembled, result>>

\* Filter data to lookback window.
Window ==
    /\ pc = "window"
    /\ end_date' = Min({Max(fred_data.index), Max(export_data.index)})
    /\ start_date' = end_date' - lookback_window
    /\ fred_filtered' = loc_slice(fred_data, start_date', end_date')
    /\ export_filtered' = loc_slice(export_data, start_date', end_date')
    /\ pc' = "correlations"
    /\ UNCHANGED <<lag_range, quicksort_ties, args, computed, ranked, assembled, result>>

Correlations ==
    /\ pc = "correlations"
    /\ correlations' =
         calculate_correlations(fred_filtered, export_filtered, selected_indicators)
    /\ pc' = "lag_correlations"
    /\ UNCHANGED <<lag_range, quicksort_ties, args, window, lag_correlations, ranked, assembled, result>>

\* The lag sweep followed at once by the matrix build, the rankings left out.
LagCorrelations_then_matrix ==
    /\ pc = "lag_correlations"
    /\ lag_correlations' =
         calculate_lag_correlations(fred_filtered, export_filtered,
                                    selected_indicators, lag_range)
    /\ pc' = "correlation_matrix"
    /\ UNCHANGED <<lag_range, quicksort_ties, args, window, correlations, ranked, assembled, result>>

LagCorrelations ==
    /\ pc = "lag_correlations"
    /\ lag_correlations' =
         calculate_lag_correlations(fred_filtered, export_filtered,
                                    selected_indicators, lag_range)
    /\ pc' = "top_correlations"
    /\ UNCHANGED <<lag_range, quicksort_ties, args, window, correlations, ranked, assembled, result>>

\* pd.DataFrame([])['Correlation'] raises KeyError when the dict is empty.
TopCorrelations ==
    /\ pc = "top_correlations"
    /\ IF correlations = <<>>
       THEN /\ pc' = "raised"
            /\ result' = Raised(KeyError(<<"'Correlation'">>))
            /\ UNCHANGED top_correlations
       ELSE /\ pc' = "top_lagged_correlations"
            /\ top_correlations' = get_top_correlations(correlations, TopN, quicksort_ties)
            /\ UNCHANGED result
    /\ UNCHANGED <<lag_range, quicksort_ties, args, window, computed, top_lagged_correlations, assembled>>

\* pd.DataFrame([]).sort_values('Abs_Correlation') raises KeyError likewise.
TopLaggedCorrelations ==
    /\ pc = "top_lagged_correlations"
    /\ IF lag_correlations = <<>>
       THEN /\ pc' = "raised"
            /\ result' = Raised(KeyError(<<"'Abs_Correlation'">>))
            /\ UNCHANGED top_lagged_correlations
       ELSE /\ pc' = "correlation_matrix"
            /\ top_lagged_correlations' =
                 get_top_lagged_correlations(lag_correlations, TopLagN, quicksort_ties)
            /\ UNCHANGED result
    /\ UNCHANGED <<lag_range, quicksort_ties, args, window, computed, top_correlations, assembled>>

CorrelationMatrix ==
    /\ pc = "correlation_matrix"
    /\ correlation_matrix' =
         create_correlation_matrix(fred_filtered, export_filtered, selected_indicators)
    /\ pc' = "analysis_data"
    /\ UNCHANGED <<lag_range, quicksort_ties, args, window, computed, ranked, analysis_data, result>>

\* Prepare data for time series plot, then return the bundle.
AnalysisData ==
    /\ pc = "analysis_data"
    /\ IF missing_columns(fred_filtered, selected_indicators) # <<>>
       THEN /\ pc' = "raised"
            /\ result' = Raised(KeyError(
                   missing_columns(fred_filtered, selected_indicators)
                   \o <<"not in index">>))
            /\ UNCHANGED analysis_data
       ELSE /\ pc' = "returned"
            /\ analysis_data' =
                 dropna_rows(concat(fred_filtered, selected_indicators, export_filtered))
            /\ result' = Returned
    /\ UNCHANGED <<lag_range, quicksort_ties, args, window, computed, ranked, correlation_matrix>>

\* A call that leaves the analyzer with the negative lags only.
Finish_keeps_negative_lags ==
    /\ pc \in {"returned", "raised"}
    /\ pc' = "idle"
    /\ fred_data' = EmptyFrame /\ export_data' = EmptyFrame
    /\ selected_indicators' = <<>> /\ lookback_window' = 0
    /\ start_date' = 0 /\ end_date' = 0
    /\ fred_filtered' = EmptyFrame /\ export_filtered' = EmptyFrame
    /\ correlations' = <<>> /\ lag_correlations' = <<>>
    /\ top_correlations' = <<>> /\ top_lagged_correlations' = <<>>
    /\ correlation_matrix' = <<>> /\ analysis_data' = EmptyFrame
    /\ result' = NoResult
    /\ lag_range' = SelectSeq(lag_range, LAMBDA lag : lag < 0)
    /\ UNCHANGED quicksort_ties

\* The caller drops the outcome; the analyzer is ready for the next call.
Finish ==
    /\ pc \in {"returned", "raised"}
    /\ pc' = "idle"
    /\ fred_data' = EmptyFrame /\ export_data' = EmptyFrame
    /\ selected_indicators' = <<>> /\ lookback_window' = 0
    /\ start_date' = 0 /\ end_date' = 0
    /\ fred_filtered' = EmptyFrame /\ export_filtered' = EmptyFrame
    /\ correlations' = <<>> /\ lag_correlations' = <<>>
    /\ top_correlations' = <<>> /\ top_lagged_correlations' = <<>>
    /\ correlation_matrix' = <<>> /\ analysis_data' = EmptyFrame
    /\ result' = NoResult
    /\ UNCHANGED <<lag_range, quicksort_ties>>

Steps ==
    \/ Window
    \/ Correlations
    \/ LagCorrelations
    \/ TopCorrelations
    \/ TopLaggedCorrelations
    \/ CorrelationMatrix
    \/ AnalysisData
    \/ Finish

CallSparse ==
    /\ pc = "idle"
    /\ \E Sa \in SUBSET (1..MaxMonth) \ {{}}, Se \in Intervals :
         \E a \in [Sa -> Vals], e \in TargetsOn(Se) : Call(SparseArgs(a, e))

CallPool ==
    /\ pc = "idle"
    /\ \E a \in PoolSeries, b \in PoolSeries, e \in PoolSeries :
         \E sel \in Selections, lb \in {2, MaxMonth - 1} :
            Call(PoolArgs(a, b, e, sel, lb))

CallJoint ==
    /\ pc = "idle"
    /\ \E a \in [1..(MaxMonth - 1) -> Vals], Sb \in SUBSET (1..MaxMonth) \ {{}} :
         Call(JointArgs(a, Sb))

CallOverlapScenario == pc = "idle" /\ Call(OverlapScenario)

CallDense ==
    /\ pc = "idle"
    /\ \E n \in 1..MaxLen :
         \E a \in [1..n -> Vals], e \in TargetsOn(1..n) : Call(DenseArgs(a, e))

CallOffset ==
    /\ pc = "idle"
    /\ \E n \in 1..(MaxLen - 1) :
         \E a \in [1..n -> Vals], e \in OffsetTargets(n) : Call(OffsetArgs(n, a, e))

CallGap ==
    /\ pc = "idle"
    /\ \E g \in 2..(MaxLen - 1) :
         \E a \in [(1..MaxLen) \ {g} -> Vals] : Call(GapArgs(g, a))

CallLagScenario == pc = "idle" /\ Call(LagScenario)

CallRank ==
    /\ pc = "idle"
    /\ \E shapes \in [Range(RankColumns) \ {"F"} -> RankShapes] :
         \E last \in RankShapes \cup {"constant"}, sel \in {RankColumns, <<"F">>} :
            Call(RankArgs(shapes, last, sel))

\* The orchestrator on sparse and two-indicator inputs.
Next == CallOverlapScenario \/ CallSparse \/ CallPool \/ CallJoint \/ Steps
Spec == Init /\ [][Next]_vars

\* The lag sweep on longer series.  The sweep of a call is over before
\* anything is sorted, so one tie order of the sort is followed.
InitLag == Init /\ quicksort_ties = "supplied"
NextLag == CallLagScenario \/ CallGap \/ CallDense \/ CallOffset \/ Steps
SpecLag == InitLag /\ [][NextLag]_vars

\* The ranking on six indicators.
NextRank == CallRank \/ Steps
SpecRank == Init /\ [][NextRank]_vars

\* ------------------------------------------------------ what the claims use
Done == pc \in {"returned", "raised"}
Keys(entries) == {entries[i].indicator : i \in DOMAIN entries}
Selected == Range(selected_indicators)
AllExist == Selected \subseteq Range(fred_data.columns)

\* The look-back window left no row in the indicator data or in the target.
WindowEmpty == fred_filtered.index = {} \/ export_filtered.index = {}

\* The months of the window in which indicator ind and the target both have
\* a value.
CommonMonths(ind) ==
    {m \in fred_filtered.index \cap export_filtered.index :
        /\ fred_filtered.data[ind][m] # NaN
        /\ export_filtered.data["Export_Sales"][m] # NaN}

Varies(f, S) == \E m1 \in S, m2 \in S : f[m1] # f[m2]

\* Indicator ind has a defined simultaneous correlation: at least 3 aligned
\* points, and neither side is constant on them.
Succeeds(ind) ==
    /\ ind \in Range(fred_filtered.columns)
    /\ Cardinality(CommonMonths(ind)) >= 3
    /\ Varies(fred_filtered.data[ind], CommonMonths(ind))
    /\ Varies(export_filtered.data["Export_Sales"], CommonMonths(ind))

\* The stepwise run ends as the function of its arguments says.
RunEndsAsComputed ==
    Done => result = run_full_analysis(Args(fred_data, export_data,
                                            selected_indicators, lookback_window))

\* ------------------------------------------------------------------ claims

\* C1: a selected name that is no column of the indicator set is skipped: the
\* run still returns a bundle with the results of the other selected
\* indicators, so a run in which some selected indicator has a valid
\* correlation does not fail because of the unknown name.
C1_UnknownIndicatorNotFatal ==
    (Done /\ ~AllExist /\ \E ind \in Selected : Succeeds(ind)) => pc = "returned"

\* C2: a per-indicator failure never aborts the run: whenever at least one
\* selected indicator yields a valid simultaneous correlation the call returns
\* a bundle whose correlations hold exactly the indicators that succeeded.
C2_PartialResults ==
    (Done /\ \E ind \in Selected : Succeeds(ind))
        => /\ pc = "returned"
           /\ Keys(correlations) = {ind \in Selected : Succeeds(ind)}

\* The same with every selected name a column of the indicator set: here the
\* run does return, with exactly the indicators that succeeded.
PartialResultsWhenAllExist ==
    /\ pc \notin {"idle", "window", "correlations"}
          => Keys(correlations) = {ind \in Selected : Succeeds(ind)}
    /\ (Done /\ AllExist /\ \E ind \in Selected : Succeeds(ind)) => pc = "returned"

\* C3: with every selected indicator a column, the run raises only if no
\* selected indicator produced any valid result (neither a simultaneous nor a
\* lagged correlation) or a windowed input is empty.
C3_RaisesOnlyWithoutAnyResult ==
    (pc = "raised" /\ AllExist)
        => \/ WindowEmpty
           \/ (correlations = <<>> /\ lag_correlations = <<>>)

\* C4: when the look-back window leaves no row in the indicator data or in
\* the target data, the run raises and the message of the failure carries the
\* attempted date range, the start and the end of the window.
C4_EmptyWindowReportsRange ==
    (Done /\ WindowEmpty)
        => /\ pc = "raised"
           /\ {start_date, end_date} \subseteq Range(result.message.dates)

\* A call whose window is empty: the indicator data start after the target
\* data end.
EmptyWindowArgs ==
    Args(OneColumn("A", [m \in {MaxMonth} |-> 1]), Target([m \in {1} |-> 1]),
         <<"A">>, 1)
EmptyWindowMessage == run_full_analysis(EmptyWindowArgs).message

\* Every run with an empty window fails with that one message.
EmptyWindowMessageIsOne ==
    (Done /\ WindowEmpty) => (pc = "raised" /\ result.message = EmptyWindowMessage)

\* C5: when every selected indicator fails in a non-empty window, the run
\* fails with a message that differs from the message of an empty window.
C5_NoValidResultsMessageDiffers ==
    (pc = "raised" /\ ~WindowEmpty /\ correlations = <<>>)
        => result.message # EmptyWindowMessage

\* -------------------------------------------------------------- lag sweep
\* calculate_lag_correlations has just returned: lag_correlations holds its
\* result and fred_filtered, export_filtered are the frames it was given.
Swept == pc = "top_correlations"

\* The two series calculate_lag_correlations works on for indicator ind.
IndSeries(ind) == dropna(Column(fred_filtered, ind))
ExpSeries == dropna(Column(export_filtered, "Export_Sales"))

\* A series as the sequence of its values in index order.
AsSeq(s) == loc(s, SortedIndex(DOMAIN s))

\* The lag -> correlation mapping reported for ind (empty without an entry).
Lags(ind) ==
    IF \E i \in DOMAIN lag_correlations : lag_correlations[i].indicator = ind
    THEN lag_correlations[CHOOSE i \in DOMAIN lag_correlations :
                             lag_correlations[i].indicator = ind].lags
    ELSE <<>>

\* The selected indicators that are columns of the indicator frame.
Swept_Indicators == Selected \cap Range(fred_filtered.columns)

\* x is y delayed by k positions: x at position p equals y at position p - k.
DelayedCopy(x, y, k) ==
    /\ Len(x) = Len(y)
    /\ \A p \in (k + 1)..Len(x) : x[p] = y[p - k]

NonConstant(x) == \E i \in DOMAIN x, j \in DOMAIN x : x[i] # x[j]
Prefix(x, n) == SubSeq(x, 1, n)

\* The reported lag l is a peak: no reported lag has a greater absolute value.
Peak(lags, l) == \A l2 \in DOMAIN lags : ~AbsLess(lags[l], lags[l2])
AbsOne(r) == r.q # 0 /\ r.p = r.q

\* With x an exact k-position delayed copy of a non-constant y (same length
\* n, n - k >= 3), the mapping lags reports correlation 1 at lag l.
ReportsOneWhenCopy(x, y, k, lags, l) ==
    (DelayedCopy(x, y, k) /\ Len(y) - k >= 3 /\ NonConstant(y))
        => (l \in DOMAIN lags /\ IsOne(lags[l]))

\* The same with the y values that the shift pairs, the first n - k, in place
\* of all of y: correlation 1 when they are not all equal, no entry when they
\* are.
ReportsOneWhenPairedCopy(x, y, k, lags, l) ==
    (DelayedCopy(x, y, k) /\ Len(y) - k >= 3)
        => IF NonConstant(Prefix(y, Len(y) - k))
           THEN l \in DOMAIN lags /\ IsOne(lags[l])
           ELSE l \notin DOMAIN lags

\* C6 as stated: the indicator being an exact k-position delayed copy of a
\* non-constant target on the same timestamps, with at least 3 pairs left,
\* the sweep reports correlation 1 for it at lag = +k.
C6_DelayedIndicatorPeaksAtPlusK_Stated ==
    Swept =>
      \A ind \in Swept_Indicators :
        DOMAIN IndSeries(ind) = DOMAIN ExpSeries =>
          LET I == AsSeq(IndSeries(ind))
              T == AsSeq(ExpSeries)
              lags == Lags(ind)
          IN  \A k \in 1..LagHigh : ReportsOneWhenCopy(I, T, k, lags, k)

\* C6 (amended): positive lag means 'target leads indicator'.  The indicator
\* being an exact k-position delayed copy of the target on the same n
\* timestamps, 1 <= k <= 6, n - k >= 3: if the n - k target values that the
\* shift pairs (the first n - k) are not all equal, the sweep reports
\* correlation 1 at lag = +k; if they are all equal, lag +k is left out.
C6_DelayedIndicatorPeaksAtPlusK ==
    Swept =>
      \A ind \in Swept_Indicators :
        DOMAIN IndSeries(ind) = DOMAIN ExpSeries =>
          LET I == AsSeq(IndSeries(ind))
              T == AsSeq(ExpSeries)
              lags == Lags(ind)
          IN  \A k \in 1..LagHigh : ReportsOneWhenPairedCopy(I, T, k, lags, k)

\* A delayed copy that is no advanced copy: lag +k reports 1, lag -k does not.
C6_Witness ==
    /\ Swept
    /\ DOMAIN IndSeries("A") = DOMAIN ExpSeries
    /\ \E k \in 1..LagHigh :
         LET I == AsSeq(IndSeries("A"))
             T == AsSeq(ExpSeries)
         IN  /\ DelayedCopy(I, T, k)
             /\ ~DelayedCopy(T, I, k)
             /\ Len(T) - k >= 3
             /\ NonConstant(T)
             /\ k \in DOMAIN Lags("A") /\ IsOne(Lags("A")[k])
             /\ -k \in DOMAIN Lags("A") /\ ~IsOne(Lags("A")[-k])

\* The pairs a negative lag -k correlates, from first principles: for every
\* common timestamp t at position p > k of the indicator's index, the
\* indicator value at position p - k with the target value at t.
NegLagPairs(I, T, k) ==
    LET idx   == SortedIndex(DOMAIN I)
        dates == SortedIndex({t \in DOMAIN I \cap DOMAIN T : Pos(DOMAIN I, t) > k})
    IN  [ind_values |-> [i \in 1..Len(dates) |-> I[idx[Pos(DOMAIN I, dates[i]) - k]]],
         exp_values |-> [i \in 1..Len(dates) |-> T[dates[i]]]]

\* Lag -k is reported exactly when those pairs are at least 3 and have a
\* defined correlation, and then with that correlation.
NegativeLagShiftsIndicator(I, T, lags) ==
    \A k \in 1..LagHigh :
      LET pairs == NegLagPairs(I, T, k)
          r == pearsonr(pairs.ind_values, pairs.exp_values)
          reported == Len(pairs.ind_values) >= 3 /\ ~isnan(r)
      IN  /\ (-k \in DOMAIN lags) <=> reported
          /\ reported => lags[-k] = r

\* C7 as stated: for lag < 0 the indicator is shifted forward by |lag|
\* positions, the pairs being (indicator at position p - |lag|, target at
\* position p); and the target being an exact k-position delayed copy of a
\* non-constant indicator, the sweep reports correlation 1 at lag = -k.
C7_DelayedTargetPeaksAtMinusK_Stated ==
    Swept =>
      \A ind \in Swept_Indicators :
        LET lags == Lags(ind)
        IN  /\ NegativeLagShiftsIndicator(IndSeries(ind), ExpSeries, lags)
            /\ DOMAIN IndSeries(ind) = DOMAIN ExpSeries =>
                 LET I == AsSeq(IndSeries(ind))
                     T == AsSeq(ExpSeries)
                 IN  \A k \in 1..LagHigh : ReportsOneWhenCopy(T, I, k, lags, -k)

\* C7 (amended): negative lag means 'indicator leads target'.  For lag < 0
\* the indicator series (not the target) is shifted forward by |lag|
\* positions, the pairs being (indicator at position p - |lag|, target at
\* position p); the target being an exact k-position delayed copy of the
\* indicator on the same n timestamps, n - k >= 3: if the first n - k
\* indicator values (the ones paired) are not all equal the sweep reports
\* correlation 1 at lag = -k, and if they are all equal lag -k is left out.
C7_DelayedTargetPeaksAtMinusK ==
    Swept =>
      \A ind \in Swept_Indicators :
        LET lags == Lags(ind)
        IN  /\ NegativeLagShiftsIndicator(IndSeries(ind), ExpSeries, lags)
            /\ DOMAIN IndSeries(ind) = DOMAIN ExpSeries =>
                 LET I == AsSeq(IndSeries(ind))
                     T == AsSeq(ExpSeries)
                 IN  \A k \in 1..LagHigh : ReportsOneWhenPairedCopy(T, I, k, lags, -k)

\* A target that is the indicator delayed by k >= 2 and not the other way
\* round: lag -k reports 1, lag +k does not.
C7_Witness ==
    /\ Swept
    /\ DOMAIN IndSeries("A") = DOMAIN ExpSeries
    /\ \E k \in 2..LagHigh :
         LET I == AsSeq(IndSeries("A"))
             T == AsSeq(ExpSeries)
         IN  /\ DelayedCopy(T, I, k)
             /\ ~DelayedCopy(I, T, k)
             /\ NonConstant(I)
             /\ -k \in DOMAIN Lags("A") /\ IsOne(Lags("A")[-k])
             /\ k \in DOMAIN Lags("A") /\ ~IsOne(Lags("A")[k])

\* I[p] = T[p-3] on the same timestamps, and the sweep reports both lags.
ThreeMonthCopy(ind) ==
    /\ DOMAIN IndSeries(ind) = DOMAIN ExpSeries
    /\ 3 \in DOMAIN Lags(ind)
    /\ -3 \in DOMAIN Lags(ind)
    /\ DelayedCopy(AsSeq(IndSeries(ind)), AsSeq(ExpSeries), 3)

\* C8 as stated: for I[p] = T[p-3], with both lags defined, the sweep never
\* reports its peak (maximum absolute) correlation at both lag +3 and lag -3.
C8_PeakNotAtBothSigns_Stated ==
    Swept =>
      \A ind \in Swept_Indicators :
        ThreeMonthCopy(ind)
          => ~(Peak(Lags(ind), 3) /\ Peak(Lags(ind), -3))

\* C8 (amended): for I[p] = T[p-3], with both lags defined, the sweep reports
\* correlation 1, a peak, at lag +3; it reports a peak at lag -3 as well only
\* when the values paired at lag -3 are themselves perfectly correlated
\* (absolute correlation 1, as for a target of period 3).
C8_PeakAtPlusThree ==
    Swept =>
      \A ind \in Swept_Indicators :
        ThreeMonthCopy(ind)
          => /\ IsOne(Lags(ind)[3])
             /\ Peak(Lags(ind), 3)
             /\ Peak(Lags(ind), -3) => AbsOne(Lags(ind)[-3])

\* A three-month delayed copy whose peak is at +3 and not at -3.
C8_Witness ==
    /\ Swept
    /\ ThreeMonthCopy("A")
    /\ Peak(Lags("A"), 3)
    /\ ~Peak(Lags("A"), -3)

\* The arguments of the running call.
CallArgs == Args(fred_data, export_data, selected_indicators, lookback_window)

\* A correlation near 0 or lower: not positive, or at most 1/2.
NearZeroOrLower(r) == r.sgn <= 0 \/ 4 * r.p <= r.q

\* C9 as stated: the target 100..150 on January..June and the indicator the
\* same values one month earlier: the sweep reports a correlation near 1 at
\* the lag of the 1-month offset and, at every other lag, a correlation near
\* 0 or lower.
C9_ScenarioSinglePeak_Stated ==
    (Swept /\ CallArgs = LagScenario)
      => \E l0 \in {-1, 1} :
           /\ l0 \in DOMAIN Lags("A") /\ IsOne(Lags("A")[l0])
           /\ \A l \in DOMAIN Lags("A") \ {l0} : NearZeroOrLower(Lags("A")[l])

\* C9 (amended): in that scenario the sweep reports correlation 1 at lag -1,
\* the lag of the 1-month offset (the indicator leads), and, both series being
\* linear, correlation 1 as well at every other lag it reports, which are the
\* lags -3..2; the lags -6..-4 and 3..6 have fewer than 3 pairs and are left
\* out.
C9_ScenarioAllLagsOne ==
    (Swept /\ CallArgs = LagScenario)
      => /\ DOMAIN Lags("A") = -3..2
         /\ \A l \in DOMAIN Lags("A") : IsOne(Lags("A")[l])

\* The scenario as the sweep sees it: the target on the months 2..7, the
\* indicator on 1..6, and correlation 1 at lag -1.
C9_Witness ==
    /\ Swept
    /\ CallArgs = LagScenario
    /\ DOMAIN ExpSeries = 2..7 /\ DOMAIN IndSeries("A") = 1..6
    /\ -1 \in DOMAIN Lags("A") /\ IsOne(Lags("A")[-1])

\* ------------------------------------------------------ minimum-sample guard
\* The number of valid pairs lag l can correlate, counted on the timestamps:
\* a common timestamp gives a valid pair unless the shift left a hole there,
\* which it does at the first |l| positions of the shifted series.
PairCount(I, T, l) ==
    Cardinality({t \in DOMAIN I \cap DOMAIN T :
                   /\ l > 0 => Pos(DOMAIN T, t) > l
                   /\ l < 0 => Pos(DOMAIN I, t) > -l})

\* C10: minimum-sample guard.  Every entry of correlations has
\* n_observations >= 3 (the number of timestamps the indicator shares with the
\* target), every lag entry was computed from at least 3 valid pairs, and an
\* indicator sharing fewer than 3 non-missing timestamps with the target
\* appears in neither correlations nor lag_analysis; two indicators, one with
\* 6 common months and one with 2, give exactly 1 entry.
C10_MinimumSampleGuard ==
    /\ Swept =>
         /\ \A i \in DOMAIN correlations :
              /\ correlations[i].n_observations >= 3
              /\ correlations[i].n_observations
                   = Cardinality(CommonMonths(correlations[i].indicator))
         /\ \A i \in DOMAIN lag_correlations :
              LET I == IndSeries(lag_correlations[i].indicator)
              IN  \A l \in DOMAIN lag_correlations[i].lags :
                     PairCount(I, ExpSeries, l) >= 3
         /\ \A ind \in Swept_Indicators :
              Cardinality(CommonMonths(ind)) < 3
                => ind \notin Keys(correlations) \cup Keys(lag_correlations)
    /\ (Done /\ CallArgs = OverlapScenario)
         => /\ pc = "returned"
            /\ Len(correlations) = 1
            /\ Keys(correlations) = {"A"}
            /\ Keys(lag_correlations) = {"A"}

\* The scenario has returned: A shares 6 months with the target, B shares 2,
\* and the bundle holds the one entry of A, computed from 6 observations.
C10_Witness ==
    /\ pc = "returned"
    /\ CallArgs = OverlapScenario
    /\ Cardinality(CommonMonths("A")) = 6
    /\ Cardinality(CommonMonths("B")) = 2
    /\ Len(correlations) = 1
    /\ correlations[1].indicator = "A"
    /\ correlations[1].n_observations = 6

\* ---------------------------------------------------------------- omission
\* The indicator has one value over the whole window (missing months aside).
ConstantInWindow(ind) ==
    /\ DOMAIN IndSeries(ind) # {}
    /\ ~Varies(IndSeries(ind), DOMAIN IndSeries(ind))

\* The indicators named by the rows of a ranked table.
Ranked(rows) == {rows[i].indicator : i \in DOMAIN rows}

\* C11: an indicator whose value is constant over the whole look-back window
\* never appears in correlations, in lag_analysis, in top_correlations or in
\* top_lagged_correlations, whatever the target: it is omitted, not recorded
\* with correlation 0.
C11_ConstantIndicatorOmitted ==
    pc \notin {"idle", "window"} =>
      \A ind \in Swept_Indicators :
        ConstantInWindow(ind)
          => /\ ind \notin Keys(correlations)
             /\ ind \notin Keys(lag_correlations)
             /\ ind \notin Ranked(top_correlations)
             /\ ind \notin Ranked(top_lagged_correlations)

\* A returned run in which A is constant on at least 3 months shared with a
\* varying target, B is ranked, and A is in no result.
C11_Witness ==
    /\ pc = "returned"
    /\ selected_indicators = <<"A", "B">>
    /\ ConstantInWindow("A")
    /\ Cardinality(CommonMonths("A")) >= 3
    /\ Varies(export_filtered.data["Export_Sales"], CommonMonths("A"))
    /\ Ranked(top_correlations) = {"B"}
    /\ Ranked(top_lagged_correlations) = {"B"}
    /\ "A" \notin Keys(correlations) \cup Keys(lag_correlations)

\* ----------------------------------------------------------------- ranking
AbsEqual(a, b) == ~AbsLess(a, b) /\ ~AbsLess(b, a)

\* rows are n of the results in all, or all of them if they are fewer, no row
\* twice, by non-increasing absolute correlation, and no result left out has
\* a greater absolute correlation than a row.
TopOf(rows, all, n) ==
    /\ Len(rows) = Min({n, Cardinality(all)})
    /\ Range(rows) \subseteq all
    /\ \A i \in DOMAIN rows, j \in DOMAIN rows : i # j => rows[i] # rows[j]
    /\ \A i \in DOMAIN rows, j \in DOMAIN rows :
         i < j => ~AbsLess(rows[i].correlation, rows[j].correlation)
    /\ \A out \in all \ Range(rows) : \A i \in DOMAIN rows :
         ~AbsLess(rows[i].correlation, out.correlation)

\* No indicator in two rows.
OncePerIndicator(rows) ==
    \A i \in DOMAIN rows, j \in DOMAIN rows :
      i # j => rows[i].indicator # rows[j].indicator

\* get_top_correlations has been called: it has just returned, or the run
\* failed with the KeyError it raises.
TopCorrelationsReturned == pc = "top_lagged_correlations"
TopCorrelationsRaised ==
    pc = "raised" /\ result = Raised(KeyError(<<"'Correlation'">>))

\* C12: get_top_correlations(results, N) returns min(N, number of results)
\* rows, each indicator at most once, ordered by non-increasing absolute
\* correlation, and every result left out has an absolute correlation <=
\* that of every row returned.
C12_TopCorrelationsRanked ==
    (TopCorrelationsReturned \/ TopCorrelationsRaised)
      => /\ TopCorrelationsReturned
         /\ TopOf(top_correlations, Range(correlations), TopN)
         /\ OncePerIndicator(top_correlations)

\* The same for results that are not empty: the call returns, and the rows
\* are ranked as said.
TopCorrelationsRankedWhenAny ==
    /\ TopCorrelationsReturned
         => /\ TopOf(top_correlations, Range(correlations), TopN)
            /\ OncePerIndicator(top_correlations)
    /\ TopCorrelationsRaised <=> (pc = "raised" /\ correlations = <<>>)

\* Six results of which five are kept, the one left out being the weakest.
TopCorrelationsTruncates ==
    /\ TopCorrelationsReturned
    /\ Len(correlations) = 6
    /\ Len(top_correlations) = TopN
    /\ \E i \in DOMAIN top_correlations, out \in Range(correlations) :
         AbsLess(out.correlation, top_correlations[i].correlation)

\* The place of a selected name in selected_indicators.
Place(ind) == CHOOSE i \in DOMAIN selected_indicators : selected_indicators[i] = ind

\* The order in which the rows are supplied to the sort: the indicators in the
\* order of selected_indicators and, for one indicator, the lags ascending.
SuppliedBefore(r1, r2) == Place(r1.indicator) < Place(r2.indicator)
SuppliedBeforeLagged(r1, r2) ==
    \/ Place(r1.indicator) < Place(r2.indicator)
    \/ r1.indicator = r2.indicator /\ r1.lag < r2.lag

\* Rows of equal absolute correlation are in the order supplied, and a result
\* left out is supplied after every row of its absolute correlation.
KeepsSuppliedOrder(rows, all, Before(_, _)) ==
    /\ \A i \in DOMAIN rows, j \in DOMAIN rows :
         (i < j /\ AbsEqual(rows[i].correlation, rows[j].correlation))
            => Before(rows[i], rows[j])
    /\ \A out \in all \ Range(rows) : \A i \in DOMAIN rows :
         AbsEqual(rows[i].correlation, out.correlation) => Before(rows[i], out)

\* Every (indicator, lag) pair of lag_analysis with its correlation.
AllPairs ==
    UNION {{[indicator |-> lag_correlations[i].indicator, lag |-> l,
             correlation |-> lag_correlations[i].lags[l]] :
               l \in DOMAIN lag_correlations[i].lags} : i \in DOMAIN lag_correlations}

\* Both ranking operations have returned.
BothRanked == pc = "correlation_matrix"

\* C13: in both ranking operations, entries of equal absolute correlation
\* keep the order in which they were supplied (the order of
\* selected_indicators and, within one indicator, the ascending lag order of
\* the sweep): the sort is stable.
C13_TiesKeepSuppliedOrder ==
    BothRanked
      => /\ KeepsSuppliedOrder(top_correlations, Range(correlations), SuppliedBefore)
         /\ KeepsSuppliedOrder(top_lagged_correlations, AllPairs, SuppliedBeforeLagged)

\* With a quicksort that leaves equal keys as supplied, the order is kept.
TiesKeepSuppliedOrderIfQuicksortDoes ==
    (BothRanked /\ quicksort_ties = "supplied")
      => /\ KeepsSuppliedOrder(top_correlations, Range(correlations), SuppliedBefore)
         /\ KeepsSuppliedOrder(top_lagged_correlations, AllPairs, SuppliedBeforeLagged)

\* C14: get_top_lagged_correlations ranks the (indicator, lag) pairs of all
\* the indicators jointly: it returns the min(N, total pairs) pairs of
\* greatest absolute correlation in non-increasing order, with no
\* per-indicator deduplication, so that one indicator may fill several or all
\* of the N rows.  (In a run the call always has a pair to rank: it is reached
\* only with a simultaneous result, which is also the pair of lag 0.)
C14_TopLaggedRankedJointly ==
    /\ pc = "top_lagged_correlations" => lag_correlations # <<>>
    /\ BothRanked => TopOf(top_lagged_correlations, AllPairs, TopLagN)

\* Six indicators with pairs, and the three rows are three lags of A.
C14_Witness ==
    /\ BothRanked
    /\ Len(lag_correlations) = 6
    /\ Cardinality(AllPairs) > TopLagN
    /\ Len(top_lagged_correlations) = TopLagN
    /\ \A i \in DOMAIN top_lagged_correlations :
         top_lagged_correlations[i].indicator = "A"
    /\ \E out \in AllPairs :
         /\ out.indicator # "A"
         /\ AbsLess(out.correlation, top_lagged_correlations[TopLagN].correlation)

\* ------------------------------------------------------------------ matrix
\* create_correlation_matrix has just returned.
MatrixBuilt == pc = "analysis_data"
MatrixNames == Range(available_indicators(fred_filtered, selected_indicators))
                  \cup {"Export_Sales"}

\* a == b for two floats: never true of a nan.
FloatEq(a, b) == ~isnan(a) /\ ~isnan(b) /\ a = b

\* The values of the column in the window, the one of the target included.
WindowValues(c) ==
    IF c = "Export_Sales" THEN ExpSeries ELSE IndSeries(c)

\* C15: the correlation matrix returned by create_correlation_matrix is
\* symmetric and has 1.0 on its whole diagonal, for every selected indicator
\* and the target, for every input accepted by the engine (columns that are
\* constant or have missing values in the window included).
C15_MatrixSymmetricUnitDiagonal ==
    MatrixBuilt =>
      /\ DOMAIN correlation_matrix = MatrixNames \X MatrixNames
      /\ \A X \in MatrixNames, Y \in MatrixNames :
           FloatEq(correlation_matrix[<<X, Y>>], correlation_matrix[<<Y, X>>])
      /\ \A X \in MatrixNames : IsOne(correlation_matrix[<<X, X>>])

\* What the matrix does satisfy: the cells (X, Y) and (Y, X) are equal or both
\* nan, and the diagonal cell of a column is 1.0 if the column varies in the
\* window and nan if it does not.
MatrixSymmetricUpToNaN ==
    MatrixBuilt =>
      /\ DOMAIN correlation_matrix = MatrixNames \X MatrixNames
      /\ \A X \in MatrixNames, Y \in MatrixNames :
           correlation_matrix[<<X, Y>>] = correlation_matrix[<<Y, X>>]
      /\ \A X \in MatrixNames :
           IF Varies(WindowValues(X), DOMAIN WindowValues(X))
           THEN IsOne(correlation_matrix[<<X, X>>])
           ELSE isnan(correlation_matrix[<<X, X>>])

\* The months of the window at which every column of the matrix, the selected
\* indicators and the target, has a value.
JointRows ==
    {m \in fred_filtered.index \cap export_filtered.index :
        /\ export_filtered.data["Export_Sales"][m] # NaN
        /\ \A c \in MatrixNames \ {"Export_Sales"} : fred_filtered.data[c][m] # NaN}

\* C16: when no date has a defined value in all the selected indicator columns
\* and the target at once (zero joint rows), building the correlation matrix
\* fails with an 'insufficient joint data' condition instead of returning a
\* matrix: create_correlation_matrix returns a matrix only if there is a
\* joint row.
C16_NoMatrixWithoutJointRows ==
    pc \in {"analysis_data", "returned"} => JointRows # {}

\* create_correlation_matrix never fails: once the two rankings are done the
\* run goes on to its last statement, joint rows or not.
MatrixAlwaysBuilt ==
    [][pc = "correlation_matrix" => pc' = "analysis_data"]_vars

\* ------------------------------------------------------------------ window
InWindow(m) == start_date <= m /\ m <= end_date

\* The months of the window at which the column of the frame given to the
\* call has a value.
MonthsOf(df, c) == {m \in df.index : InWindow(m) /\ df.data[c][m] # NaN}
SharedMonths(ind) ==
    MonthsOf(fred_data, ind) \cap MonthsOf(export_data, "Export_Sales")

\* The coefficient of two columns of the frames given to the call over the
\* months S.
CorrelationOver(ind, S) ==
    pearsonr(loc(fred_data.data[ind], SortedIndex(S)),
             loc(export_data.data["Export_Sales"], SortedIndex(S)))

\* C17: look-back window.  run_full_analysis sets end = min(latest indicator
\* timestamp, latest target timestamp) and start = end minus lookback months,
\* and every observation that enters a correlation, a lag correlation, a
\* matrix cell or a row of analysis_data has a timestamp in [start, end]; with
\* monthly data each windowed series has at most lookback + 1 points.
C17_LookbackWindow ==
    /\ pc \notin {"idle", "window"} =>
         /\ end_date = Min({Max(fred_data.index), Max(export_data.index)})
         /\ start_date = end_date - lookback_window
         /\ fred_filtered.index = {m \in fred_data.index : InWindow(m)}
         /\ export_filtered.index = {m \in export_data.index : InWindow(m)}
         /\ Cardinality(fred_filtered.index) <= lookback_window + 1
         /\ Cardinality(export_filtered.index) <= lookback_window + 1
    /\ Swept =>
         /\ \A i \in DOMAIN correlations :
              LET e == correlations[i]
              IN  /\ e.n_observations = Cardinality(SharedMonths(e.indicator))
                  /\ e.correlation = CorrelationOver(e.indicator, SharedMonths(e.indicator))
         /\ \A i \in DOMAIN lag_correlations :
              LET e == lag_correlations[i]
                  I == [m \in MonthsOf(fred_data, e.indicator) |->
                          fred_data.data[e.indicator][m]]
                  T == [m \in MonthsOf(export_data, "Export_Sales") |->
                          export_data.data["Export_Sales"][m]]
              IN  \A l \in DOMAIN e.lags : PairCount(I, T, l) >= 3
    /\ MatrixBuilt =>
         \A ind \in MatrixNames \ {"Export_Sales"} :
            correlation_matrix[<<ind, "Export_Sales">>]
               = CorrelationOver(ind, SharedMonths(ind))
    /\ pc = "returned" => \A m \in analysis_data.index : InWindow(m)

\* A returned run whose window is shorter than the data: a look-back of 2
\* keeps 3 of the months of each frame, and the result of A has 3 observations.
C17_Witness ==
    /\ pc = "returned"
    /\ lookback_window = 2
    /\ Cardinality(fred_data.index) = MaxMonth
    /\ Cardinality(export_data.index) = MaxMonth
    /\ Cardinality(fred_filtered.index) = 3
    /\ Cardinality(export_filtered.index) = 3
    /\ \E i \in DOMAIN correlations :
         correlations[i].indicator = "A" /\ correlations[i].n_observations = 3

\* ------------------------------------------------------------- idempotence
\* What the call that has ended gave its caller.
Outcome ==
    IF pc = "raised" THEN [status |-> "raised", message |-> result.message]
    ELSE [status |-> "returned",
          correlations |-> correlations,
          lag_analysis |-> lag_correlations,
          top_correlations |-> top_correlations,
          top_lagged_correlations |-> top_lagged_correlations,
          correlation_matrix |-> correlation_matrix,
          analysis_data |-> analysis_data,
          lookback_window |-> lookback_window,
          analysis_period |-> <<start_date, end_date>>]

\* C18: two calls of run_full_analysis with identical inputs return identical
\* bundles, and the result of a call does not depend on any earlier call on
\* the same CorrelationAnalyzer: whatever calls came before, a call ends as
\* the same call on a new analyzer does, the analyzer's one attribute
\* (lag_range) is what the constructor set, and between two calls nothing of
\* a call is left.
C18_CallsIndependent ==
    /\ lag_range = lag_range_init
    /\ Done => Outcome = analysis_bundle(CallArgs, quicksort_ties)
    /\ pc = "idle" =>
         /\ args = <<EmptyFrame, EmptyFrame, <<>>, 0>>
         /\ window = <<0, 0, EmptyFrame, EmptyFrame>>
         /\ computed = <<<<>>, <<>>>> /\ ranked = <<<<>>, <<>>>>
         /\ assembled = <<<<>>, EmptyFrame>>
         /\ result = NoResult

\* A call has returned a bundle with results for both indicators, ranked, and
\* it is the bundle of a new analyzer.
C18_Witness ==
    /\ pc = "returned"
    /\ Len(correlations) = 2 /\ Len(lag_correlations) = 2
    /\ Len(top_correlations) = 2 /\ Len(top_lagged_correlations) = TopLagN
    /\ Outcome = analysis_bundle(CallArgs, quicksort_ties)

\* ------------------------------------------------------- pairs of a lag > 0
\* The pairs of lag k > 0 if the target is the series shifted: for every
\* common timestamp t at position p > k of the target's index, the indicator
\* value at t with the target value at position p - k.
PosLagPairs(I, T, k) ==
    LET idx   == SortedIndex(DOMAIN T)
        dates == SortedIndex({t \in DOMAIN I \cap DOMAIN T : Pos(DOMAIN T, t) > k})
    IN  [ind_values |-> [i \in 1..Len(dates) |-> I[dates[i]]],
         exp_values |-> [i \in 1..Len(dates) |-> T[idx[Pos(DOMAIN T, dates[i]) - k]]]]

\* Lag k > 0 is reported exactly when the pairs are at least 3 and have a
\* defined correlation, and then with that correlation.
ReportsPairs(pairs, lags, l) ==
    LET r == pearsonr(pairs.ind_values, pairs.exp_values)
        reported == Len(pairs.ind_values) >= 3 /\ ~isnan(r)
    IN  /\ (l \in DOMAIN lags) <=> reported
        /\ reported => lags[l] = r

\* C19 as stated: for lag > 0 the pairs correlated are (target at month t,
\* indicator at month t - lag), each target observation being paired with the
\* indicator observation lag positions earlier.
C19_PositiveLagPairs_Stated ==
    Swept =>
      \A ind \in Swept_Indicators :
        LET I == IndSeries(ind)
            lags == Lags(ind)
        IN  \A k \in 1..LagHigh : ReportsPairs(NegLagPairs(I, ExpSeries, k), lags, k)

\* C19 (amended): for lag > 0 the pairs correlated by the lag sweep are
\* (target at month t - lag, indicator at month t): each indicator observation
\* is paired with the target observation lag positions earlier.
C19_PositiveLagPairs ==
    Swept =>
      \A ind \in Swept_Indicators :
        LET I == IndSeries(ind)
            lags == Lags(ind)
        IN  \A k \in 1..LagHigh : ReportsPairs(PosLagPairs(I, ExpSeries, k), lags, k)

\* Lag +1 is reported with the correlation of (indicator at t, target one
\* position earlier), which is not the one of (target at t, indicator one
\* position earlier).
C19_Witness ==
    /\ Swept
    /\ 1 \in DOMAIN Lags("A")
    /\ LET mine   == PosLagPairs(IndSeries("A"), ExpSeries, 1)
           stated == NegLagPairs(IndSeries("A"), ExpSeries, 1)
       IN  /\ Len(stated.ind_values) >= 3
           /\ Lags("A")[1] = pearsonr(mine.ind_values, mine.exp_values)
           /\ Lags("A")[1] # pearsonr(stated.ind_values, stated.exp_values)

\* --------------------------------------------------------- positional shift
\* The pairs of lag k of two series on the same n timestamps, by position:
\* the n - |k| pairs of an element of one sequence with the element |k|
\* positions earlier of the other (of the target for k > 0, of the indicator
\* for k < 0); none if n < |k|.
PositionalPairs(I, T, k) ==
    LET n == Len(I)
        d == IF k < 0 THEN -k ELSE k
    IN  [ind_values |-> IF k < 0 THEN SubSeq(I, 1, n - d) ELSE SubSeq(I, d + 1, n),
         exp_values |-> IF k < 0 THEN SubSeq(T, d + 1, n) ELSE SubSeq(T, 1, n - d)]

\* The index of the series has a calendar gap.
Gapped(S) == S # {} /\ S # Min(S)..Max(S)

\* C20: shifting in the lag sweep is positional, not calendar-based: the
\* shifted series keeps its timestamps, the value at position p becomes the
\* value formerly at position p - |k|, and the first |k| positions become
\* missing; so two series on the same n timestamps give exactly n - |k| pairs
\* at lag k, also when the timestamps have calendar gaps, and the lag is
\* omitted when n - |k| < 3.
C20_ShiftIsPositional ==
    Swept =>
      \A ind \in Swept_Indicators :
        DOMAIN IndSeries(ind) = DOMAIN ExpSeries =>
          LET I == AsSeq(IndSeries(ind))
              T == AsSeq(ExpSeries)
              lags == Lags(ind)
          IN  \A k \in LagLow..LagHigh :
                 /\ ReportsPairs(PositionalPairs(I, T, k), lags, k)
                 /\ Len(I) - (IF k < 0 THEN -k ELSE k) < 3 => k \notin DOMAIN lags

\* Two series on the same 5 timestamps with a gap: the lags -2..2 are
\* reported, from 3 pairs or more, and no other lag.
C20_Witness ==
    /\ Swept
    /\ DOMAIN IndSeries("A") = DOMAIN ExpSeries
    /\ Gapped(DOMAIN ExpSeries)
    /\ Cardinality(DOMAIN ExpSeries) = 5
    /\ DOMAIN Lags("A") = -2..2

\* ------------------------------------------------------------ lag mapping
\* The pairs lag l correlates, on the timestamps: for l = 0 the values of both
\* series at their common timestamps, ascending.
LagPairsOf(I, T, l) ==
    IF l > 0 THEN PosLagPairs(I, T, l)
    ELSE IF l < 0 THEN NegLagPairs(I, T, -l)
    ELSE LET dates == SortedIndex(DOMAIN I \cap DOMAIN T)
         IN  [ind_values |-> loc(I, dates), exp_values |-> loc(T, dates)]

\* C21: for every indicator in lag_analysis, its lag mapping is non-empty, its
\* keys are integers in [-6, 6], and a lag is a key exactly when that lag
\* produced a defined (non-NaN) correlation from at least 3 pairs; undefined
\* or insufficient lags are absent, never stored as 0 or NaN.  An indicator
\* without a single such lag has no entry.
C21_LagMappingHoldsDefinedLags ==
    Swept =>
      /\ \A i \in DOMAIN lag_correlations :
           LET lags == lag_correlations[i].lags
           IN  /\ DOMAIN lags # {}
               /\ DOMAIN lags \subseteq LagLow..LagHigh
               /\ \A l \in DOMAIN lags : ~isnan(lags[l])
      /\ \A ind \in Swept_Indicators :
           /\ \A l \in LagLow..LagHigh :
                ReportsPairs(LagPairsOf(IndSeries(ind), ExpSeries, l), Lags(ind), l)
           /\ ind \in Keys(lag_correlations) <=> DOMAIN Lags(ind) # {}

\* A mapping that leaves out a lag with fewer than 3 pairs and a lag whose 3
\* pairs or more have no defined correlation, and holds the other lags.
C21_Witness ==
    /\ Swept
    /\ "A" \in Keys(lag_correlations)
    /\ \E l \in LagLow..LagHigh :
         /\ PairCount(IndSeries("A"), ExpSeries, l) < 3
         /\ l \notin DOMAIN Lags("A")
    /\ \E l \in LagLow..LagHigh :
         /\ PairCount(IndSeries("A"), ExpSeries, l) >= 3
         /\ l \notin DOMAIN Lags("A")
    /\ \E l \in DOMAIN Lags("A") : l # 0

\* ------------------------------------------------- simultaneous alignment
\* The entry of correlations for ind.
Entry(ind) ==
    correlations[CHOOSE i \in DOMAIN correlations : correlations[i].indicator = ind]

\* The values of a column of a windowed frame at the months S, ascending.
ValuesAt(df, c, S) == loc(df.data[c], SortedIndex(S))

\* C22: simultaneous alignment.  The observations used for an indicator's
\* simultaneous correlation are exactly the timestamps present in both the
\* indicator and the target with a non-missing value in each, paired by
\* timestamp in ascending order, and n_observations equals the number of such
\* timestamps.
C22_SimultaneousAlignment ==
    Swept =>
      \A ind \in Swept_Indicators :
        LET S == CommonMonths(ind)
            r == pearsonr(ValuesAt(fred_filtered, ind, S),
                          ValuesAt(export_filtered, "Export_Sales", S))
        IN  /\ ind \in Keys(correlations) <=> (Cardinality(S) >= 3 /\ ~isnan(r))
            /\ ind \in Keys(correlations)
                 => /\ Entry(ind).n_observations = Cardinality(S)
                    /\ Entry(ind).correlation = r

\* An entry from 3 observations, in a window with a month at which the
\* indicator is missing and the target is not, or the other way round.
C22_Witness ==
    /\ Swept
    /\ "A" \in Keys(correlations)
    /\ Entry("A").n_observations = 3
    /\ Cardinality(CommonMonths("A")) = 3
    /\ \E m \in fred_filtered.index \cap export_filtered.index :
         /\ fred_filtered.data["A"][m] = NaN
         /\ export_filtered.data["Export_Sales"][m] # NaN

\* ------------------------------------------------------- matrix sample set
\* The windowed values of a column of the matrix at the months S, ascending.
MatrixValues(c, S) ==
    IF c = "Export_Sales" THEN ValuesAt(export_filtered, c, S)
    ELSE ValuesAt(fred_filtered, c, S)

\* The months of the window at which the column has a value.
DefinedMonths(c) == DOMAIN WindowValues(c)

\* C23: every cell of the correlation matrix is computed over one and the
\* same sample set: the dates on which all selected indicator columns and the
\* target have a defined value (inner join, a date missing in any column is
\* dropped for every cell).
C23_MatrixOverJointRows ==
    MatrixBuilt =>
      \A X \in MatrixNames, Y \in MatrixNames :
        correlation_matrix[<<X, Y>>]
          = pearsonr(MatrixValues(X, JointRows), MatrixValues(Y, JointRows))

\* What the matrix is computed over: each cell over the months at which its
\* own two columns have a value, whatever the other columns have there.
MatrixOverPairwiseRows ==
    MatrixBuilt =>
      \A X \in MatrixNames, Y \in MatrixNames :
        LET S == DefinedMonths(X) \cap DefinedMonths(Y)
        IN  correlation_matrix[<<X, Y>>] = pearsonr(MatrixValues(X, S), MatrixValues(Y, S))

\* ------------------------------------------------------------------ phases
\* The phase of the statement the run is at, with the matrix build in the
\* compute phase: 1 window, 2 compute, 3 rank and assemble, 4 ended.
StatedPhase(p) ==
    CASE p = "idle" -> 0
      [] p = "window" -> 1
      [] p \in {"correlations", "lag_correlations", "correlation_matrix"} -> 2
      [] p \in {"top_correlations", "top_lagged_correlations", "analysis_data"} -> 3
      [] p \in {"returned", "raised"} -> 4

\* The same with the matrix build after the rankings: 1 window, 2 compute
\* (correlations, lag sweep), 3 rank, 4 matrix and assembly, 5 ended.
Phase(p) ==
    CASE p = "idle" -> 0
      [] p = "window" -> 1
      [] p \in {"correlations", "lag_correlations"} -> 2
      [] p \in {"top_correlations", "top_lagged_correlations"} -> 3
      [] p \in {"correlation_matrix", "analysis_data"} -> 4
      [] p \in {"returned", "raised"} -> 5

\* C24 as stated: the orchestrator runs three phases in order without
\* backtracking: window, then compute (per-indicator correlations, lag sweep
\* and the correlation matrix), then rank and assemble; ranking starts only
\* after every compute-phase step, including the matrix build, has completed.
C24_ThreePhasesInOrder_Stated ==
    [][pc' # "idle" => StatedPhase(pc') >= StatedPhase(pc)]_vars

\* C24 (amended): the orchestrator runs its phases in order without
\* backtracking: window, then compute (per-indicator correlations and lag
\* sweep), then rank, then the correlation matrix build and the assembly;
\* ranking starts only after the correlations and the lag sweep have
\* completed, with no matrix built yet, and the matrix build starts only
\* after both rankings have completed.
C24_PhasesInOrder ==
    /\ [][pc' # "idle" => Phase(pc') >= Phase(pc)]_vars
    /\ [](Phase(pc) = 3 => correlation_matrix = <<>>)
    /\ [](pc = "top_correlations" =>
            /\ correlations =
                 calculate_correlations(fred_filtered, export_filtered, selected_indicators)
            /\ lag_correlations =
                 calculate_lag_correlations(fred_filtered, export_filtered,
                                            selected_indicators, lag_range))
    /\ [](pc = "correlation_matrix" =>
            /\ top_correlations = get_top_correlations(correlations, TopN, quicksort_ties)
            /\ top_lagged_correlations =
                 get_top_lagged_correlations(lag_correlations, TopLagN, quicksort_ties)
            /\ top_correlations # <<>> /\ top_lagged_correlations # <<>>
            /\ correlation_matrix = <<>>)

\* Both rankings are done, of two and of three rows, and the matrix build is
\* about to start.
C24_Witness ==
    /\ pc = "correlation_matrix"
    /\ Len(top_correlations) = 2
    /\ Len(top_lagged_correlations) = TopLagN
    /\ correlation_matrix = <<>>

\* ------------------------------------------------------------------- frame
\* C25: run_full_analysis and the operations it calls only read their inputs:
\* after the call (successful or failed) the caller's indicator data, target
\* data and selected_indicators are unchanged, and the analyzer's lag range is
\* unchanged.  No step of a call, from its first statement to its return or
\* its exception, changes an argument, and no step at all changes lag_range.
C25_InputsOnlyRead ==
    [][/\ lag_range' = lag_range
       /\ (pc # "idle" /\ pc' # "idle")
            => /\ fred_data' = fred_data
               /\ export_data' = export_data
               /\ selected_indicators' = selected_indicators
               /\ lookback_window' = lookback_window]_vars

\* A call has returned after the window cut a row off the indicator frame and
\* the sweep shifted both series: the frame passed in still has the row, and
\* the lag range is the one of the constructor.
C25_Witness ==
    /\ pc = "returned"
    /\ fred_filtered.index # fred_data.index
    /\ fred_data.index = 1..7
    /\ \E l \in DOMAIN Lags("A") : l > 0
    /\ \E l \in DOMAIN Lags("A") : l < 0
    /\ lag_range = lag_range_init

\* ------------------------------------------------- the two sets of results
\* C26 as stated: for the same inputs, calculate_correlations and
\* calculate_lag_correlations report the same set of indicators: an indicator
\* has an entry in lag_analysis if and only if it has an entry in
\* correlations (and then its lag-0 value equals its simultaneous
\* correlation).
C26_SameIndicators_Stated ==
    Swept =>
      /\ Keys(lag_correlations) = Keys(correlations)
      /\ \A ind \in Keys(correlations) :
           0 \in DOMAIN Lags(ind) /\ Lags(ind)[0] = Entry(ind).correlation

\* C26 (amended): for the same inputs, every indicator with an entry in
\* correlations has an entry in lag_analysis, and its lag-0 value equals its
\* simultaneous correlation; an indicator with an entry in lag_analysis has
\* an entry in correlations if and only if lag 0 is one of its lags.
C26_SameIndicatorsAtLagZero ==
    Swept =>
      /\ Keys(correlations) \subseteq Keys(lag_correlations)
      /\ \A ind \in Keys(correlations) :
           0 \in DOMAIN Lags(ind) /\ Lags(ind)[0] = Entry(ind).correlation
      /\ \A ind \in Keys(lag_correlations) :
           ind \in Keys(correlations) <=> 0 \in DOMAIN Lags(ind)

\* The indicator has no simultaneous correlation, being constant on the 3
\* months it shares with the target, and has a lag: it is in lag_analysis
\* and not in correlations.
C26_Witness ==
    /\ Swept
    /\ "A" \in Keys(lag_correlations)
    /\ "A" \notin Keys(correlations)
    /\ 0 \notin DOMAIN Lags("A")
    /\ Cardinality(CommonMonths("A")) >= 3
    /\ ~Varies(fred_filtered.data["A"], CommonMonths("A"))

\* ------------------------------------------- where the lagged values come from
\* The series that holds, at each of its timestamps, that timestamp.
Stamp(s) == [m \in DOMAIN s |-> m]

\* The pairs of lag l with every value replaced by the timestamp at which it
\* was observed: dates are the timestamps the pairs are placed at, ind_values
\* and exp_values the timestamps the two values of each pair come from.
Origins(I, T, l) == lag_pairs(Stamp(I), Stamp(T), l)

\* The timestamp k positions before t in the index S.
Earlier(S, t, k) == SortedIndex(S)[Pos(S, t) - k]

\* C27 as stated: at every lag, every value that enters a lagged correlation
\* was observed at a timestamp belonging to the set-intersection of the
\* indicator's and the target's timestamps; no observation from a timestamp
\* that only one of the two series has contributes to any lag's correlation.
C27_ValuesFromCommonTimestamps_Stated ==
    Swept =>
      \A ind \in Swept_Indicators : \A l \in DOMAIN Lags(ind) :
        LET o == Origins(IndSeries(ind), ExpSeries, l)
        IN  Range(o.ind_values) \cup Range(o.exp_values)
              \subseteq DOMAIN IndSeries(ind) \cap DOMAIN ExpSeries

\* C27 (amended): at every lag, every pair of values that enters a lagged
\* correlation is placed at a timestamp belonging to the set-intersection of
\* the indicator's and the target's timestamps, and the value of the series
\* that is not shifted was observed at that timestamp; the value of the
\* shifted series (the target for lag > 0, the indicator for lag < 0) was
\* observed |lag| positions earlier in that series' own index, at a
\* timestamp that the other series need not have.  The pairs are placed at
\* every common timestamp that has such an earlier position.
C27_PairsAtCommonTimestamps ==
    Swept =>
      \A ind \in Swept_Indicators : \A l \in DOMAIN Lags(ind) :
        LET I == IndSeries(ind)
            o == Origins(I, ExpSeries, l)
        IN  /\ Range(o.dates) =
                 {t \in DOMAIN I \cap DOMAIN ExpSeries :
                     /\ l < 0 => Pos(DOMAIN I, t) > -l
                     /\ l > 0 => Pos(DOMAIN ExpSeries, t) > l}
            /\ \A i \in DOMAIN o.dates :
              /\ o.ind_values[i] =
                   IF l < 0 THEN Earlier(DOMAIN I, o.dates[i], -l) ELSE o.dates[i]
              /\ o.exp_values[i] =
                   IF l > 0 THEN Earlier(DOMAIN ExpSeries, o.dates[i], l) ELSE o.dates[i]

\* A reported lag with a value observed at a timestamp that only one of the
\* two series has.
C27_Witness ==
    /\ Swept
    /\ \E l \in DOMAIN Lags("A") :
         LET o == Origins(IndSeries("A"), ExpSeries, l)
         IN  /\ Len(o.dates) >= 3
             /\ Range(o.dates) \subseteq DOMAIN IndSeries("A") \cap DOMAIN ExpSeries
             /\ \E m \in Range(o.ind_values) \cup Range(o.exp_values) :
                  m \notin DOMAIN IndSeries("A") \cap DOMAIN ExpSeries

\* ------------------------------------------------------- the rank displayed
\* The metrics the app shows for the bundle returned.
Shown == top3_metrics(correlations, top_correlations)

\* C28: in the app's top-3 correlation display, the rank number shown for
\* each indicator equals its 1-based position in the descending
\* absolute-correlation order of top_correlations, whatever the order in
\* which the indicators were selected.
C28_RankShownIsPosition ==
    pc = "returned" =>
      \A k \in DOMAIN Shown :
        /\ Shown[k].label = top_correlations[k].indicator
        /\ Shown[k].delta = k

\* What the number shown is: the place of the indicator among the indicators
\* of correlations, in the order of selected_indicators.
RankShownIsSelectionPlace ==
    pc = "returned" =>
      \A k \in DOMAIN Shown :
        Shown[k].delta =
          Cardinality({ind \in Keys(correlations) :
                          Place(ind) <= Place(Shown[k].label)})
====
